---- MODULE Spec2Model ----
(***************************************************************************)
(* Hyperliquid WS -> n8n webhook relay (server.js).                        *)
(*                                                                         *)
(* Events and messages are JSON values.  An object with fields is a TLA+   *)
(* record whose DOMAIN is the set of fields it carries, the object without *)
(* fields is EmptyObj, an array is a tuple, null is Null; strings, numbers *)
(* and booleans are themselves.  An inbound frame is                       *)
(*   [json |-> FALSE]                          text that JSON.parse rejects*)
(*   [json |-> TRUE, isArray |-> TRUE,  items |-> <<e1, ...>>]   an array  *)
(*   [json |-> TRUE, isArray |-> FALSE, obj |-> v]           any other value*)
(***************************************************************************)
EXTENDS Integers, Sequences, FiniteSets, TLC

VARIABLES
  ADDRESSES,          \* the configured accounts (fixed at startup)
  pin, pout, ppc,     \* a pure function's input, its output, "in"/"out"
  clock,              \* Date.now()
  ticks,              \* how often the clock has advanced
  seen,               \* the dedup cache: eventKey -> timestamp
  lastTs,             \* the poll watermark: address -> time
  tasks,              \* the async handlers suspended at an await
  delivered,          \* the envelopes handed to the webhook, in order
  nmsgs, npolls,      \* stream messages received, poll cycles started
  call,               \* history: the latest shouldEmit call and what it returned
  emitAt,             \* history: eventKey -> when shouldEmit last returned true
  ncalls,             \* calls made on the cache
  conns,              \* connection instances created by connect()
  ws,                 \* the module-level handle: the latest instance
  sock,               \* per instance: "connecting", "open", "closing", "closed"
  hb,                 \* the instances whose heartbeat interval is active, in
                      \* the order the intervals fire next (equal periods)
  sent,               \* per instance: the subscribe messages sent on it
  pingOut,            \* per instance: a transport ping on it is unanswered
  appPinged,          \* per instance: a keepalive {method:'ping'} was sent on it
  alive,              \* the module-level liveness flag
  appPing,            \* the module-level keepalive handle (0: none yet)
  keepalives,         \* the keepalive intervals that are active
  pending,            \* setTimeout(connect, RECONNECT_MS) timers not yet fired,
                      \* oldest first: for each, the heartbeat intervals that
                      \* were armed before it and so may fire before it
  crashed,            \* an exception escaped a handler: the process exited
  last                \* history: the latest connection handler that ran, or
                      \* the latest webhook call that failed

pureVars == <<pin, pout, ppc>>
relayVars == <<ADDRESSES, clock, ticks, seen, lastTs, tasks, delivered, nmsgs, npolls>>
cacheVars == <<call, emitAt, ncalls>>
connVars == <<conns, ws, sock, hb, sent, pingOut, appPinged, alive, appPing,
              keepalives, pending, crashed, last>>
vars == <<pureVars, relayVars, cacheVars, connVars>>

None == "none"

(***************************************************************************)
(* Configuration and constants                                             *)
(***************************************************************************)
SEEN_TTL_MS == 60 * 60 * 1000
LOOKBACK_MS == 5 * 60 * 1000

(***************************************************************************)
(* JavaScript helpers                                                      *)
(***************************************************************************)
\* The object without fields, {}, and null.  Each is a value of its own,
\* kept apart from the empty array <<>> and from every object with fields
\* (no object the relay handles has a field named "{}").
EmptyObj == ("{}" :> "object")
Null == ("{}" :> "null")
\* The first character of a value as written out tells its JSON type: an
\* array is a tuple, an object (and null) a record or a function on
\* strings, a string is quoted; the rest are numbers and booleans.
Ch(v) == SubSeq(ToString(v), 1, 1)
\* v === null
IsNull(v) == ToString(v) = ToString(Null)
\* Array.isArray(v)
IsArray(v) == Ch(v) = "<"
\* v is an object that is no array
IsObject(v) == Ch(v) \in {"[", "("} /\ ~IsNull(v)
\* v is an object with at least one field
HasFields(v) ==
  LET text == ToString(v)
  IN  /\ SubSeq(text, 1, 1) \in {"[", "("}
      /\ text \notin {ToString(Null), ToString(EmptyObj)}
\* typeof v === 'string'
IsString(v) == Ch(v) = "\""
\* o.f is not undefined (null, a number, boolean or string has none of the
\* fields read here, nor has an array)
Has(o, f) == HasFields(o) /\ f \in DOMAIN o
\* the fields of v, as a function on their names: null, a number, boolean,
\* string or array has none of the fields read here
Obj(v) == IF HasFields(v) THEN v ELSE <<>>
\* evt.f for a numeric field of an object: undefined and 0 are both falsy
Num(o, f) == IF f \in DOMAIN o THEN o[f] ELSE 0
\* a || b on numbers
OrN(a, b) == IF a # 0 THEN a ELSE b
\* a value used as a condition: '', 0, false and null are falsy, every
\* other string or number and every object or array is truthy
Truthy(v) == ToString(v) \notin {"\"\"", "0", "FALSE", ToString(Null)}
\* a || b
Or(a, b) == IF Truthy(a) THEN a ELSE b
\* o.f where o holds the fields of an object; an absent field reads as '',
\* which is falsy as undefined is
Get(o, f) == IF f \in DOMAIN o THEN o[f] ELSE ""
\* o.f used as a condition: an absent field is undefined, which is falsy
Is(o, f) == Has(o, f) /\ Truthy(o[f])
\* o.f === 'text'
IsText(o, f, text) == Has(o, f) /\ ToString(o[f]) = ToString(text)
\* the characters of a string, as iterating it yields them
Chars(str) == [i \in 1..Len(str) |-> SubSeq(str, i, i)]
\* the own enumerable properties of an array: its elements under '0', '1', ...
Indexed(q) ==
  [k \in {ToString(i - 1) : i \in 1..Len(q)} |->
     q[CHOOSE i \in 1..Len(q) : ToString(i - 1) = k]]
\* { ...v }: the own enumerable properties of v; null, a number, a boolean
\* and the object without fields have none
Spread(v) ==
  IF HasFields(v) THEN v
  ELSE IF IsArray(v) THEN Indexed(v)
  ELSE IF IsString(v) THEN Indexed(Chars(v))
  ELSE <<>>
\* for (const x of v) runs: v is an array or a string; anything else throws
Iterable(v) == IsArray(v) \/ IsString(v)
\* what for (const x of v) yields
Elements(v) == IF IsString(v) THEN Chars(v) ELSE v

\* String.prototype.toLowerCase on the strings the model uses
toLowerCase(s) ==
  CASE s = "0xAB" -> "0xab"
    [] s = "0xCD" -> "0xcd"
    [] OTHER -> s

RECURSIVE JoinFrom(_, _, _)
JoinFrom(parts, i, sep) ==
  IF i > Len(parts) THEN ""
  ELSE IF i = Len(parts) THEN parts[i]
  ELSE parts[i] \o sep \o JoinFrom(parts, i + 1, sep)
\* Array.prototype.join(sep) on an array of strings
Join(parts, sep) == JoinFrom(parts, 1, sep)

\* the string join() writes for an element: a string as it is, a number in
\* decimal, a boolean by name, null as '', an array as its elements joined
\* by commas, any other object as '[object Object]'
RECURSIVE JsString(_)
JsString(v) ==
  IF IsString(v) THEN v
  ELSE IF IsArray(v) THEN Join([i \in 1..Len(v) |-> JsString(v[i])], ",")
  ELSE IF IsObject(v) THEN "[object Object]"
  ELSE IF IsNull(v) THEN ""
  ELSE IF ToString(v) = "TRUE" THEN "true"
  ELSE IF ToString(v) = "FALSE" THEN "false"
  ELSE ToString(v)

\* what stands for the exception where a function has no value to yield
TypeError == "TypeError"

(***************************************************************************)
(* eventKey (server.js 45-55)                                              *)
(***************************************************************************)
\* a plausible slip: the wallet alias is not consulted
eventKey_NoWallet(v) ==
  LET evt == Obj(v)
      a   == Or(Get(evt, "address"), Or(Get(evt, "user"), ""))
      t   == Or(Get(evt, "time"), Or(Get(evt, "timestamp"), Or(Get(evt, "ts"), 0)))
      h   == Or(Get(evt, "txHash"), Or(Get(evt, "hash"), ""))
      oid == Or(Get(evt, "orderId"), Or(Get(evt, "cloid"), ""))
      c   == Or(Get(evt, "coin"), Or(Get(evt, "symbol"), Or(Get(evt, "asset"), "")))
      k   == Or(Get(evt, "kind"), Or(Get(evt, "type"), Or(Get(evt, "eventType"), "")))
      px  == Or(Get(evt, "px"), Or(Get(evt, "price"), ""))
      sz  == Or(Get(evt, "sz"), Or(Get(evt, "size"), ""))
  IN  IF ~IsString(a) THEN TypeError
      ELSE Join(<<toLowerCase(a), JsString(h), JsString(oid), JsString(t),
                  JsString(k), JsString(c), JsString(px), JsString(sz)>>, "|")

\* The account is lowercased: when it is truthy and no string, toLowerCase
\* is no function and the call throws.
eventKey(v) ==
  LET evt == Obj(v)
      a   == Or(Get(evt, "address"), Or(Get(evt, "user"), Or(Get(evt, "wallet"), "")))
      t   == Or(Get(evt, "time"), Or(Get(evt, "timestamp"), Or(Get(evt, "ts"), 0)))
      h   == Or(Get(evt, "txHash"), Or(Get(evt, "hash"), ""))
      oid == Or(Get(evt, "orderId"), Or(Get(evt, "cloid"), ""))
      c   == Or(Get(evt, "coin"), Or(Get(evt, "symbol"), Or(Get(evt, "asset"), "")))
      k   == Or(Get(evt, "kind"), Or(Get(evt, "type"), Or(Get(evt, "eventType"), "")))
      px  == Or(Get(evt, "px"), Or(Get(evt, "price"), ""))
      sz  == Or(Get(evt, "sz"), Or(Get(evt, "size"), ""))
  IN  IF ~IsString(a) THEN TypeError
      ELSE Join(<<toLowerCase(a), JsString(h), JsString(oid), JsString(t),
                  JsString(k), JsString(c), JsString(px), JsString(sz)>>, "|")

(***************************************************************************)
(* Dedup cache (server.js 36-43, 57-65).  The cache is a function from     *)
(* keys to timestamps; shouldEmit yields the returned boolean and the      *)
(* cache after the call.                                                   *)
(***************************************************************************)
MapSet(m, k, v) == [x \in DOMAIN m \cup {k} |-> IF x = k THEN v ELSE m[x]]

gcSeen(s, now) ==
  [k \in {x \in DOMAIN s : ~(now - s[x] > SEEN_TTL_MS)} |-> s[k]]

\* a plausible slip: a rejected call bumps the recorded timestamp
shouldEmit_Refresh(evt, s, now) ==
  LET key  == eventKey(evt)
      prev == IF key \in DOMAIN s THEN s[key] ELSE 0
  IN  IF key = "" THEN [ret |-> TRUE, seen |-> s]
      ELSE IF prev # 0 /\ (now - prev) < SEEN_TTL_MS
             THEN [ret |-> FALSE, seen |-> MapSet(s, key, now)]
             ELSE [ret |-> TRUE, seen |-> MapSet(s, key, now)]

shouldEmit(evt, s, now) ==
  LET key  == eventKey(evt)
      prev == IF key \in DOMAIN s THEN s[key] ELSE 0
  IN  IF key = "" THEN [ret |-> TRUE, seen |-> s]
      ELSE IF prev # 0 /\ (now - prev) < SEEN_TTL_MS
             THEN [ret |-> FALSE, seen |-> s]
             ELSE [ret |-> TRUE, seen |-> MapSet(s, key, now)]

(***************************************************************************)
(* Normalizer: the dispatch of ws.on('message') (server.js 141-167)        *)
(***************************************************************************)
\* { kind: tag, ...o }: the spread comes last, so o's own fields win
Tagged(tag, o) == Spread(o) @@ [kind |-> tag]

MapTagged(tag, arr) == [i \in 1..Len(arr) |-> Tagged(tag, arr[i])]

\* if (msg && msg.subscription && msg.channel): both fields truthy (an array
\* has neither)
IsAck(msg) ==
  /\ ~msg.isArray
  /\ Is(msg.obj, "subscription")
  /\ Is(msg.obj, "channel")

\* msg.events || [msg.event], and the same for updates
ListOf(o, many, one) == IF Is(o, many) THEN o[many] ELSE <<o[one]>>

\* the dispatch throws a TypeError, which the catch of line 176 logs: the
\* value the event or ledger rule iterates is neither an array nor a string
Throws(msg) ==
  /\ ~msg.isArray
  /\ LET o == msg.obj IN
       /\ ~(Is(o, "fills") /\ IsArray(o.fills))
       /\ ~Is(o, "fill")
       /\ IF Is(o, "event") \/ Is(o, "events")
            THEN ~Iterable(ListOf(o, "events", "event"))
            ELSE /\ Is(o, "update") \/ Is(o, "updates")
                 /\ ~Iterable(ListOf(o, "updates", "update"))

\* the payloads array built for a parsed message that is no acknowledgment.
\* A field is tested for truthiness, as the code does.
Normalize(msg) ==
  IF msg.isArray THEN msg.items
  ELSE IF Throws(msg) THEN TypeError
  ELSE LET o == msg.obj IN
    IF Is(o, "fills") /\ IsArray(o.fills) THEN MapTagged("fill", o.fills)
    ELSE IF Is(o, "fill") THEN <<Tagged("fill", o.fill)>>
    ELSE IF Is(o, "event") \/ Is(o, "events")
      THEN MapTagged("event", Elements(ListOf(o, "events", "event")))
    ELSE IF Is(o, "update") \/ Is(o, "updates")
      THEN MapTagged("ledger", Elements(ListOf(o, "updates", "update")))
    ELSE IF Is(o, "type") /\ (IsText(o, "type", "pong") \/ IsText(o, "method", "pong"))
      THEN <<>>
    ELSE <<Tagged("raw", o)>>

\* if (!p.address && (p.user || p.wallet)) p.address = p.user || p.wallet
AddrFix(p) ==
  LET o == Obj(p)
      account == Or(Get(o, "user"), Get(o, "wallet"))
  IN  IF ~Truthy(Get(o, "address")) /\ Truthy(account)
        THEN [address |-> account] @@ o
        ELSE p

(***************************************************************************)
(* Inputs of the pure functions                                            *)
(***************************************************************************)
\* the fields eventKey reads, by component, in the order it consults them
Aliases ==
  [addr |-> <<"address", "user", "wallet">>,
   hash |-> <<"txHash", "hash">>,
   oid  |-> <<"orderId", "cloid">>,
   time |-> <<"time", "timestamp", "ts">>,
   kind |-> <<"kind", "type", "eventType">>,
   coin |-> <<"coin", "symbol", "asset">>,
   px   |-> <<"px", "price">>,
   sz   |-> <<"sz", "size">>]

Groups == DOMAIN Aliases
StrGroups == Groups \ {"time"}

\* how many components of one event may use an alias other than the first
MaxAltAliases == 1

AliasVecs ==
  {al \in [Groups -> 1..3] :
     /\ \A g \in Groups : al[g] <= Len(Aliases[g])
     /\ Cardinality({g \in Groups : al[g] # 1}) <= MaxAltAliases}

\* the values of the components; "" and 0 stand for a component not supplied
LogicalEvents ==
  {[addr |-> "0xAB", hash |-> "h1", oid |-> "7", time |-> 100, kind |-> "fill",
    coin |-> "BTC", px |-> "1", sz |-> "2"],
   [addr |-> "0xab", hash |-> "", oid |-> "9", time |-> 50, kind |-> "",
    coin |-> "ETH", px |-> "3", sz |-> ""],
   [addr |-> "0xcd", hash |-> "h2", oid |-> "", time |-> 0, kind |-> "event",
    coin |-> "", px |-> "", sz |-> "4"],
   [addr |-> "", hash |-> "", oid |-> "", time |-> 0, kind |-> "",
    coin |-> "", px |-> "", sz |-> ""]}

\* the event object that supplies component g of v in the field al[g] names
Repr(v, al) ==
  LET carried == {g \in Groups : IF g = "time" THEN v[g] # 0 ELSE v[g] # ""}
      field(g) == Aliases[g][al[g]]
      groupOf(f) == CHOOSE g \in carried : field(g) = f
  IN  [f \in {field(g) : g \in carried} |-> v[groupOf(f)]]

KeyInputs ==
  {[op |-> "key", v |-> v, e1 |-> Repr(v, a1), e2 |-> Repr(v, a2)] :
     v \in LogicalEvents, a1 \in AliasVecs, a2 \in AliasVecs}

\* stream items: fills as the exchange reports them, with the account in
\* one of the address fields
Fill(t, h) == [coin |-> "BTC", px |-> "1", sz |-> "2", time |-> t, hash |-> h]
F100 == Fill(100, "h1")
F50 == Fill(50, "h2")
F200 == Fill(200, "h3")

ObjMsg(o) == [json |-> TRUE, isArray |-> FALSE, obj |-> o]
ArrMsg(items) == [json |-> TRUE, isArray |-> TRUE, items |-> items]
BadMsg == [json |-> FALSE]

AckMsg == ObjMsg([channel |-> "subscriptionResponse", subscription |-> "userFills"])

\* a sequence: the messages are of unlike shapes, which a set cannot hold
NormInputs ==
  <<ArrMsg(<<[user |-> "0xab"] @@ F100, EmptyObj>>),
   ArrMsg(<<>>),
   ObjMsg([fills |-> <<[user |-> "0xAB"] @@ F100, [wallet |-> "0xab"] @@ F50>>]),
   ObjMsg([fills |-> <<[kind |-> "trade", user |-> "0xab"] @@ F200>>]),
   ObjMsg([fills |-> <<>>]),
   ObjMsg([fills |-> <<F100>>, fill |-> F50, type |-> "pong"]),
   ObjMsg([fill |-> [address |-> "0xcd"] @@ F100]),
   ObjMsg([fill |-> F50, event |-> F100]),
   ObjMsg([event |-> [user |-> "0xab", type |-> "liquidation"]]),
   ObjMsg([events |-> <<[user |-> "0xab"], [user |-> "0xcd"]>>, update |-> EmptyObj]),
   ObjMsg([update |-> [user |-> "0xab", coin |-> "USDC"]]),
   ObjMsg([updates |-> <<[wallet |-> "0xcd"]>>, type |-> "pong"]),
   ObjMsg([type |-> "pong"]),
   ObjMsg([type |-> "x", method |-> "pong"]),
   ObjMsg([method |-> "pong"]),
   ObjMsg([foo |-> "1"]),
   ObjMsg([channel |-> "pong"]),
   ObjMsg(EmptyObj),
   ObjMsg(Null),
   ObjMsg([fills |-> EmptyObj]),
   ObjMsg([fills |-> "ab"]),
   ObjMsg([fill |-> Null, type |-> "pong"]),
   ObjMsg([event |-> "ab"]),
   ObjMsg([events |-> "ab"]),
   ObjMsg([events |-> EmptyObj]),
   ObjMsg([events |-> 5]),
   ObjMsg([update |-> 5]),
   ObjMsg([updates |-> EmptyObj, type |-> "pong"])>>

(***************************************************************************)
(* The relay pipeline: stream messages, poll cycles, deliveries.           *)
(* A step is what runs between two awaits.  An async handler that reaches  *)
(* await emitToN8N(...) has issued the POST (the envelope is appended to   *)
(* `delivered`) and stays in `tasks` until the webhook call settles.       *)
(***************************************************************************)
MaxMsgs == 1        \* stream messages received in a run of Spec
MaxPolls == 1       \* poll cycles started in a run of Spec
MaxTicks == 2       \* clock advances in a run of Spec
MaxCycles == 2      \* poll cycles started in a run of SpecPoll
MaxPollTicks == 1   \* clock advances in a run of SpecPoll

POLL_MS == 20000
Epoch == 2 * LOOKBACK_MS
ClockSteps == {1, SEEN_TTL_MS - 1}

StreamMsgs ==
  {ObjMsg([fills |-> <<[user |-> "0xAB"] @@ F100, [wallet |-> "0xab"] @@ F50>>]),
   ArrMsg(<<[user |-> "0xab"] @@ F100, EmptyObj>>),
   ArrMsg(<<[user |-> "0xab"] @@ F50, Null>>),
   ObjMsg([events |-> EmptyObj]),
   AckMsg,
   BadMsg}

\* what the info endpoint answers: a network failure, a body that is not
\* JSON, or an array of fills (objects, or null where the body is broken)
PollResults ==
  {[kind |-> "neterr"], [kind |-> "nojson"],
   [kind |-> "fills", fills |-> <<>>],
   [kind |-> "fills", fills |-> <<F100, F50, F200>>],
   [kind |-> "fills", fills |-> <<F50, Null>>]}

Outcomes == {"ok", "non2xx", "neterr"}

MapHas(m, k) == k \in DOMAIN m
\* m.get(k) || 0
MapGet0(m, k) == IF k \in DOMAIN m THEN m[k] ELSE 0
Max(a, b) == IF a >= b THEN a ELSE b
RemoveAt(q, i) == [j \in 1..(Len(q) - 1) |-> IF j < i THEN q[j] ELSE q[j + 1]]

\* f.kind = 'fill'; f.address = addr
PollTag(f, addr) == [kind |-> "fill", address |-> addr] @@ Spread(f)

\* The loop body throws a TypeError at element i.  Stream: a null element
\* has no address to read (line 170), and eventKey throws on an account
\* that is no string.  Poll: null, a number, a boolean or a string takes no
\* property (f.kind = 'fill' in a module, which is strict code).
ElementThrows(t, i) ==
  LET p == t.items[i]
  IN  IF t.type = "ws"
        THEN IF IsNull(p) THEN TRUE ELSE eventKey(AddrFix(p)) = TypeError
        ELSE ~IsObject(p) /\ ~IsArray(p)

\* the loop body's view of element i of a handler's array
Payload(t, i) ==
  IF t.type = "ws" THEN AddrFix(t.items[i])
  ELSE PollTag(t.items[i], ADDRESSES[t.ai])

\* a plausible slip: the loop checks the cache but the key of the element it
\* hands over is not recorded before the await
RECURSIVE Scan_LateRecord(_, _, _, _)
Scan_LateRecord(t, i, s, now) ==
  IF i > Len(t.items) THEN [i |-> i, seen |-> s, thrown |-> FALSE]
  ELSE IF ElementThrows(t, i) THEN [i |-> i, seen |-> s, thrown |-> TRUE]
  ELSE LET r == shouldEmit(Payload(t, i), s, now)
       IN  IF r.ret THEN [i |-> i, seen |-> s, thrown |-> FALSE]
           ELSE Scan_LateRecord(t, i + 1, r.seen, now)

\* The for-loop of a handler from element i on, up to its first await: every
\* element shouldEmit rejects is skipped in the same step.  Yields the index
\* of the element handed to emitToN8N (Len + 1 when the loop ran out), or of
\* the element the loop body threw at, and the cache.
RECURSIVE Scan(_, _, _, _)
Scan(t, i, s, now) ==
  IF i > Len(t.items) THEN [i |-> i, seen |-> s, thrown |-> FALSE]
  ELSE IF ElementThrows(t, i) THEN [i |-> i, seen |-> s, thrown |-> TRUE]
  ELSE LET r == shouldEmit(Payload(t, i), s, now)
       IN  IF r.ret THEN [i |-> i, seen |-> r.seen, thrown |-> FALSE]
           ELSE Scan(t, i + 1, r.seen, now)

Envelope(t, i) ==
  [source |-> IF t.type = "ws" THEN "hyperliquid-ws" ELSE "hyperliquid-poll",
   receivedAt |-> t.now, event |-> Payload(t, i), sentAt |-> clock]

\* const since = lastTs.get(addr) || (now - 5 * 60 * 1000)
Since(wm, addr, now) == OrN(MapGet0(wm, addr), now - LOOKBACK_MS)

\* the poll task at the top of the loop body for its next address, or no task
\* when the addresses are exhausted
PollAdvance(t, wm) ==
  IF t.ai < Len(ADDRESSES)
    THEN <<[t EXCEPT !.ai = t.ai + 1, !.pc = "fetch", !.items = <<>>, !.i = 0,
                     !.since = Since(wm, ADDRESSES[t.ai + 1], t.now)]>>
    ELSE <<>>

\* a plausible slip: the seed is the poll's start time, not its `since`
SeedWatermark_Now(t, wm) ==
  IF Len(t.items) = 0 /\ ~MapHas(wm, ADDRESSES[t.ai])
    THEN MapSet(wm, ADDRESSES[t.ai], t.now)
    ELSE wm

\* if (fills.length === 0 && !lastTs.has(addr)) lastTs.set(addr, since)
SeedWatermark(t, wm) ==
  IF Len(t.items) = 0 /\ ~MapHas(wm, ADDRESSES[t.ai])
    THEN MapSet(wm, ADDRESSES[t.ai], t.since)
    ELSE wm

\* a plausible slip: the watermark is set to the fill's time without Math.max
AdvanceWatermark_NoMax(wm, addr, f) ==
  IF Num(f, "time") # 0 THEN MapSet(wm, addr, f.time) ELSE wm

\* if (f.time) lastTs.set(addr, Math.max(lastTs.get(addr) || 0, f.time))
AdvanceWatermark(wm, addr, f) ==
  IF Num(f, "time") # 0
    THEN MapSet(wm, addr, Max(MapGet0(wm, addr), f.time))
    ELSE wm

\* tasks with tasks[k] replaced by the tasks of q (none or one); k = 0 adds q
Put(k, q) ==
  IF k = 0 THEN tasks \o q
  ELSE [j \in 1..(Len(tasks) - 1 + Len(q)) |->
          IF j < k THEN tasks[j]
          ELSE IF j = k /\ Len(q) = 1 THEN q[1]
          ELSE tasks[j + 1 - Len(q)]]

\* the envelopes of the elements of t from i on that shouldEmit accepts, one
\* after the other without a pause, and the cache after them
RECURSIVE EmitAll(_, _, _, _)
EmitAll(t, i, s, out) ==
  IF i > Len(t.items) THEN [seen |-> s, out |-> out, thrown |-> FALSE]
  ELSE IF ElementThrows(t, i) THEN [seen |-> s, out |-> out, thrown |-> TRUE]
  ELSE LET r == shouldEmit(Payload(t, i), s, clock)
       IN  EmitAll(t, i + 1, r.seen, IF r.ret THEN Append(out, Envelope(t, i)) ELSE out)

\* a plausible slip: the message handler does not await emitToN8N, so all
\* the POSTs of a message are issued at once
Resume_NoAwait(t, k, wm, r) ==
  IF r.thrown
    THEN \* the catch logs: a message handler ends without gcSeen(), a poll
         \* goes to its next address without seeding
         /\ seen' = r.seen
         /\ delivered' = delivered
         /\ lastTs' = wm
         /\ tasks' = Put(k, IF t.type = "ws" THEN <<>> ELSE PollAdvance(t, wm))
  ELSE IF r.i <= Len(t.items)
    THEN IF t.type = "ws"
      THEN LET a == EmitAll(t, r.i + 1, r.seen, <<Envelope(t, r.i)>>)
           IN  /\ seen' = IF a.thrown THEN a.seen ELSE gcSeen(a.seen, clock)
               /\ delivered' = delivered \o a.out
               /\ tasks' = Put(k, <<>>)
               /\ lastTs' = wm
      ELSE /\ seen' = r.seen
           /\ delivered' = Append(delivered, Envelope(t, r.i))
           /\ tasks' = Put(k, <<[t EXCEPT !.i = r.i, !.pc = "emit"]>>)
           /\ lastTs' = wm
    ELSE IF t.type = "ws"
      THEN /\ seen' = gcSeen(r.seen, clock)
           /\ delivered' = delivered
           /\ tasks' = Put(k, <<>>)
           /\ lastTs' = wm
      ELSE /\ seen' = r.seen
           /\ delivered' = delivered
           /\ lastTs' = SeedWatermark(t, wm)
           /\ tasks' = Put(k, PollAdvance(t, SeedWatermark(t, wm)))

\* Handler t (tasks[k], or a new one when k = 0) after its loop ran from some
\* element to r.i with cache r.seen, the watermark being wm: at its next
\* await, or at its end.
Resume(t, k, wm, r) ==
  IF r.thrown
    THEN \* the catch logs: a message handler ends without gcSeen(), a poll
         \* goes to its next address without seeding
         /\ seen' = r.seen
         /\ delivered' = delivered
         /\ lastTs' = wm
         /\ tasks' = Put(k, IF t.type = "ws" THEN <<>> ELSE PollAdvance(t, wm))
  ELSE IF r.i <= Len(t.items)
    THEN \* await emitToN8N(...): the POST is issued
         /\ seen' = r.seen
         /\ delivered' = Append(delivered, Envelope(t, r.i))
         /\ tasks' = Put(k, <<[t EXCEPT !.i = r.i, !.pc = "emit"]>>)
         /\ lastTs' = wm
    ELSE IF t.type = "ws"
      THEN \* the loop is over: gcSeen()
           /\ seen' = gcSeen(r.seen, clock)
           /\ delivered' = delivered
           /\ tasks' = Put(k, <<>>)
           /\ lastTs' = wm
      ELSE \* the fills are exhausted: seed, then the next address
           /\ seen' = r.seen
           /\ delivered' = delivered
           /\ lastTs' = SeedWatermark(t, wm)
           /\ tasks' = Put(k, PollAdvance(t, SeedWatermark(t, wm)))

\* Run handler t from element i: to its next await or to its end.
Continue(t, k, i, wm) == Resume(t, k, wm, Scan(t, i, seen, clock))

\* time passes
Tick(d, maxTicks) ==
  /\ ticks < maxTicks
  /\ clock' = clock + d
  /\ ticks' = ticks + 1
  /\ UNCHANGED <<ADDRESSES, seen, lastTs, tasks, delivered, nmsgs, npolls, pureVars, cacheVars, connVars>>

\* ws.on('message'): text JSON.parse rejects, or a message the dispatch
\* throws on, is logged and dropped
OnBadMessage(raw, maxMsgs) ==
  /\ nmsgs < maxMsgs
  /\ IF raw.json THEN ~IsAck(raw) /\ Throws(raw) ELSE TRUE
  /\ nmsgs' = nmsgs + 1
  /\ UNCHANGED <<ADDRESSES, clock, ticks, seen, lastTs, tasks, delivered, npolls, pureVars, cacheVars, connVars>>

\* ws.on('message'): a subscription acknowledgment is logged and returns
OnAck(raw, maxMsgs) ==
  /\ nmsgs < maxMsgs
  /\ raw.json
  /\ IsAck(raw)
  /\ nmsgs' = nmsgs + 1
  /\ UNCHANGED <<ADDRESSES, clock, ticks, seen, lastTs, tasks, delivered, npolls, pureVars, cacheVars, connVars>>

\* ws.on('message'): normalize, then the delivery loop up to its first await
\* (or to its end, or to the element its body throws at)
OnMessage(raw, maxMsgs) ==
  /\ nmsgs < maxMsgs
  /\ raw.json
  /\ ~IsAck(raw)
  /\ ~Throws(raw)
  /\ nmsgs' = nmsgs + 1
  /\ Continue([type |-> "ws", now |-> clock, items |-> Normalize(raw), i |-> 0,
               pc |-> "start"], 0, 1, lastTs)
  /\ UNCHANGED <<ADDRESSES, clock, ticks, npolls, pureVars, cacheVars, connVars>>

\* setInterval(pollUserFills, POLL_MS): a cycle starts and awaits its first fetch
pollUserFills(maxPolls) ==
  /\ npolls < maxPolls
  /\ npolls' = npolls + 1
  /\ tasks' = Append(tasks, [type |-> "poll", now |-> clock, ai |-> 1, items |-> <<>>,
                             i |-> 0, pc |-> "fetch",
                             since |-> Since(lastTs, ADDRESSES[1], clock)])
  /\ UNCHANGED <<ADDRESSES, clock, ticks, seen, lastTs, delivered, nmsgs, pureVars, cacheVars, connVars>>

\* the fetch of poll task k rejects: catch, log, next address
PollFailed(k) ==
  /\ k \in 1..Len(tasks)
  /\ tasks[k].type = "poll" /\ tasks[k].pc = "fetch"
  /\ LET q == PollAdvance(tasks[k], lastTs)
     IN  tasks' = [j \in 1..(Len(tasks) - 1 + Len(q)) |->
                     IF j < k THEN tasks[j]
                     ELSE IF j = k /\ Len(q) = 1 THEN q[1]
                     ELSE tasks[j + 1 - Len(q)]]
  /\ UNCHANGED <<ADDRESSES, clock, ticks, seen, lastTs, delivered, nmsgs, npolls, pureVars, cacheVars, connVars>>

\* the fetch of poll task k answers fills (a body res.json() rejects counts
\* as {} and so as no fills): the delivery loop up to its first await
PollAnswered(k, res) ==
  /\ k \in 1..Len(tasks)
  /\ tasks[k].type = "poll" /\ tasks[k].pc = "fetch"
  /\ res.kind # "neterr"
  /\ Continue([tasks[k] EXCEPT !.items = IF res.kind = "fills" THEN res.fills ELSE <<>>],
              k, 1, lastTs)
  /\ UNCHANGED <<ADDRESSES, clock, ticks, nmsgs, npolls, pureVars, cacheVars, connVars>>

\* what the history keeps of a failed webhook call of task t
Failure(t) == [h |-> "webhook", key |-> eventKey(Payload(t, t.i))]

\* a plausible slip: a failed webhook call ends the handler
DeliverySettled_Abort(k, outcome) ==
  /\ k \in 1..Len(tasks)
  /\ tasks[k].pc = "emit"
  /\ LET t == tasks[k]
     IN  IF outcome = "ok"
           THEN /\ Continue(t, k, t.i + 1,
                            IF t.type = "poll"
                              THEN AdvanceWatermark(lastTs, ADDRESSES[t.ai], Payload(t, t.i))
                              ELSE lastTs)
                /\ last' = last
           ELSE /\ tasks' = RemoveAt(tasks, k)
                /\ last' = Failure(t)
                /\ UNCHANGED <<seen, lastTs, delivered>>
  /\ UNCHANGED <<ADDRESSES, clock, ticks, nmsgs, npolls, pureVars, cacheVars, conns, ws,
                 sock, hb, sent, pingOut, appPinged, alive, appPing, keepalives,
                 pending, crashed>>

\* emitToN8N settles for task k (2xx, non-2xx or a network error, all of
\* them only logged); the handler resumes after its await
DeliverySettled(k, outcome) ==
  /\ k \in 1..Len(tasks)
  /\ tasks[k].pc = "emit"
  /\ LET t == tasks[k]
     IN  /\ Continue(t, k, t.i + 1,
                     IF t.type = "poll"
                       THEN AdvanceWatermark(lastTs, ADDRESSES[t.ai], Payload(t, t.i))
                       ELSE lastTs)
         /\ last' = IF outcome = "ok" THEN last ELSE Failure(t)
  /\ UNCHANGED <<ADDRESSES, clock, ticks, nmsgs, npolls, pureVars, cacheVars, conns, ws,
                 sock, hb, sent, pingOut, appPinged, alive, appPing, keepalives,
                 pending, crashed>>

\* the subscribe messages of subscribeAll, in the order it sends them
SubscriptionSet ==
  LET kinds == <<"userFills", "userEvents", "userNonFundingLedgerUpdates">>
  IN  [n \in 1..(3 * Len(ADDRESSES)) |->
         [method |-> "subscribe", type |-> kinds[((n - 1) % 3) + 1],
          user |-> ADDRESSES[((n - 1) \div 3) + 1]]]

\* module load: the state declarations, then connect() (server.js 32-34, 194)
InitConn ==
  /\ conns = 1
  /\ ws = 1
  /\ sock = <<"connecting">>
  /\ hb = <<1>>
  /\ sent = << <<>> >>
  /\ pingOut = <<FALSE>>
  /\ appPinged = <<FALSE>>
  /\ alive = FALSE
  /\ appPing = 0
  /\ keepalives = {}
  /\ pending = <<>>
  /\ crashed = FALSE
  /\ last = [h |-> "connect", c |-> 1]

InitRelay(addrs) ==
  /\ ADDRESSES = addrs
  /\ clock = Epoch
  /\ ticks = 0
  /\ seen = <<>>
  /\ lastTs = <<>>
  /\ tasks = <<>>
  /\ delivered = <<>>
  /\ nmsgs = 0
  /\ npolls = 0
  /\ call = None
  /\ emitAt = <<>>
  /\ ncalls = 0

Init ==
  /\ InitRelay(<<"0xab">>)
  /\ InitConn
  /\ pin = None /\ pout = None /\ ppc = "idle"

Next ==
  \/ \E d \in ClockSteps : Tick(d, MaxTicks)
  \/ \E raw \in StreamMsgs : OnBadMessage(raw, MaxMsgs)
  \/ \E raw \in StreamMsgs : OnAck(raw, MaxMsgs)
  \/ \E raw \in StreamMsgs : OnMessage(raw, MaxMsgs)
  \/ pollUserFills(MaxPolls)
  \/ \E k \in 1..Len(tasks) : PollFailed(k)
  \/ \E k \in 1..Len(tasks), res \in PollResults : PollAnswered(k, res)
  \/ \E k \in 1..Len(tasks), outcome \in Outcomes : DeliverySettled(k, outcome)

Spec == Init /\ [][Next]_vars

(***************************************************************************)
(* SpecPoll: the poller alone, its cycles overlapping                      *)
(***************************************************************************)
NextPoll ==
  \/ Tick(POLL_MS, MaxPollTicks)
  \/ pollUserFills(MaxCycles)
  \/ \E k \in 1..Len(tasks) : PollFailed(k)
  \/ \E k \in 1..Len(tasks), res \in PollResults : PollAnswered(k, res)
  \/ \E k \in 1..Len(tasks), outcome \in Outcomes : DeliverySettled(k, outcome)

SpecPoll == Init /\ [][NextPoll]_vars

(***************************************************************************)
(* SpecDeliver: handlers of several stream messages and overlapping poll   *)
(* cycles interleaving at their awaits, all carrying the same fills        *)
(***************************************************************************)
MaxDelMsgs == 2      \* stream messages received in a run of SpecDeliver
MaxDelPolls == 2     \* poll cycles started in a run of SpecDeliver
MaxDelTicks == 1     \* clock advances in a run of SpecDeliver

DelMsgs == {ObjMsg([fills |-> <<[user |-> "0xAB"] @@ F100, [wallet |-> "0xab"] @@ F50>>])}
DelPolls == {[kind |-> "fills", fills |-> <<F100, F200>>]}

NextDeliver ==
  \/ Tick(SEEN_TTL_MS \div 2, MaxDelTicks)
  \/ \E raw \in DelMsgs : OnMessage(raw, MaxDelMsgs)
  \/ pollUserFills(MaxDelPolls)
  \/ \E k \in 1..Len(tasks), res \in DelPolls : PollAnswered(k, res)
  \/ \E k \in 1..Len(tasks), outcome \in Outcomes : DeliverySettled(k, outcome)

SpecDeliver == Init /\ [][NextDeliver]_vars

(***************************************************************************)
(* SpecFail: one stream message and one poll cycle, their webhook calls    *)
(* succeeding or failing                                                   *)
(***************************************************************************)
MaxFailMsgs == 1     \* stream messages received in a run of SpecFail
MaxFailPolls == 1    \* poll cycles started in a run of SpecFail
MaxFailTicks == 1    \* clock advances in a run of SpecFail

NextFail ==
  \/ Tick(SEEN_TTL_MS \div 2, MaxFailTicks)
  \/ \E raw \in DelMsgs : OnMessage(raw, MaxFailMsgs)
  \/ pollUserFills(MaxFailPolls)
  \/ \E k \in 1..Len(tasks), res \in DelPolls : PollAnswered(k, res)
  \/ \E k \in 1..Len(tasks), outcome \in Outcomes : DeliverySettled(k, outcome)

SpecFail == Init /\ [][NextFail]_vars

(***************************************************************************)
(* SpecSweep: the poller alone, no stream traffic, cache entries ageing    *)
(* past the TTL between cycles                                             *)
(***************************************************************************)
MaxSweepCycles == 2  \* poll cycles started in a run of SpecSweep
MaxSweepTicks == 1   \* clock advances in a run of SpecSweep

NextSweep ==
  \/ Tick(SEEN_TTL_MS + 1, MaxSweepTicks)
  \/ pollUserFills(MaxSweepCycles)
  \/ \E k \in 1..Len(tasks) : PollFailed(k)
  \/ \E k \in 1..Len(tasks), res \in PollResults : PollAnswered(k, res)
  \/ \E k \in 1..Len(tasks), outcome \in Outcomes : DeliverySettled(k, outcome)

SpecSweep == Init /\ [][NextSweep]_vars

(***************************************************************************)
(* SpecPoll2: one poll cycle over two accounts                             *)
(***************************************************************************)
MaxIsoCycles == 1    \* poll cycles started in a run of SpecPoll2
MaxIsoTicks == 1     \* clock advances in a run of SpecPoll2

InitPoll2 ==
  /\ InitRelay(<<"0xab", "0xcd">>)
  /\ InitConn
  /\ pin = None /\ pout = None /\ ppc = "idle"

NextPoll2 ==
  \/ Tick(POLL_MS, MaxIsoTicks)
  \/ pollUserFills(MaxIsoCycles)
  \/ \E k \in 1..Len(tasks) : PollFailed(k)
  \/ \E k \in 1..Len(tasks), res \in PollResults : PollAnswered(k, res)
  \/ \E k \in 1..Len(tasks), outcome \in Outcomes : DeliverySettled(k, outcome)

SpecPoll2 == InitPoll2 /\ [][NextPoll2]_vars

(***************************************************************************)
(* SpecCache: the dedup cache driven call by call under a simulated clock  *)
(***************************************************************************)
MaxCalls == 3        \* shouldEmit calls in a run of SpecCache
MaxCacheTicks == 2   \* clock advances in a run of SpecCache

\* events as the two paths hand them to shouldEmit, and two bare ones
CacheEvents ==
  {AddrFix(Tagged("fill", [user |-> "0xAB"] @@ F100)),
   PollTag(F100, "0xab"),
   PollTag(F50, "0xab"),
   EmptyObj,
   [foo |-> "1"]}

CallShouldEmit(evt) ==
  /\ ncalls < MaxCalls
  /\ ncalls' = ncalls + 1
  /\ LET r == shouldEmit(evt, seen, clock)
         key == eventKey(evt)
         h == IF key \in DOMAIN emitAt THEN emitAt[key] ELSE [at |-> 0, rejected |-> 0]
     IN  /\ seen' = r.seen
         /\ call' = [evt |-> evt, key |-> key, ret |-> r.ret, at |-> clock,
                     last |-> h.at, rejected |-> h.rejected]
         /\ emitAt' = MapSet(emitAt, key,
                             IF r.ret THEN [at |-> clock, rejected |-> 0]
                             ELSE [h EXCEPT !.rejected = 1])
  /\ UNCHANGED <<ADDRESSES, clock, ticks, lastTs, tasks, delivered, nmsgs, npolls, pureVars,
                 connVars>>

CallGcSeen ==
  /\ seen' = gcSeen(seen, clock)
  /\ UNCHANGED <<ADDRESSES, clock, ticks, lastTs, tasks, delivered, nmsgs, npolls,
                 pureVars, cacheVars, connVars>>

NextCache ==
  \/ \E d \in ClockSteps : Tick(d, MaxCacheTicks)
  \/ \E evt \in CacheEvents : CallShouldEmit(evt)
  \/ CallGcSeen

SpecCache == Init /\ [][NextCache]_vars

(***************************************************************************)
(* SpecPure: eventKey and the normalizer applied to drawn inputs           *)
(***************************************************************************)
InitPure ==
  /\ InitRelay(<<"0xab">>)
  /\ InitConn
  /\ ppc = "in"
  /\ pout = None
  /\ \/ pin \in KeyInputs
     \/ \E n \in 1..Len(NormInputs) : pin = [op |-> "norm", msg |-> NormInputs[n]]

ApplyEventKey ==
  /\ ppc = "in"
  /\ pin.op = "key"
  /\ pout' = <<eventKey(pin.e1), eventKey(pin.e2)>>
  /\ ppc' = "out"
  /\ UNCHANGED <<pin, relayVars, cacheVars, connVars>>

ApplyNormalize ==
  /\ ppc = "in"
  /\ pin.op = "norm"
  /\ pout' = Normalize(pin.msg)
  /\ ppc' = IF Throws(pin.msg) THEN "threw" ELSE "out"
  /\ UNCHANGED <<pin, relayVars, cacheVars, connVars>>

NextPure == ApplyEventKey \/ ApplyNormalize

SpecPure == InitPure /\ [][NextPure]_vars

(***************************************************************************)
(* SpecConn: the connection loop (server.js 85-194).  The `ws` package     *)
(* emits 'close' after terminate() and after any transport failure; its    *)
(* send() and ping() throw while the socket is CONNECTING and do nothing   *)
(* once it is CLOSING or CLOSED.                                           *)
(***************************************************************************)
MaxConns == 3       \* connection instances created in a run of SpecConn

Live(c) == sock[c] \in {"connecting", "open"}

\* the heartbeat interval of instance c is active
HbActive(q, c) == \E n \in 1..Len(q) : q[n] = c

\* clearInterval(hb) for the interval of instance c
ClearHb(q, c) == SelectSeq(q, LAMBDA x : x # c)

\* the set of the elements of a sequence
Range(q) == {q[n] : n \in 1..Len(q)}

\* setTimeout(connect, RECONNECT_MS) while the intervals of q are armed
Schedule(p, q) == Append(p, Range(q))

\* the interval of instance c has fired or is cleared: armed again, it
\* fires after every reconnect timer now waiting (RECONNECT_MS < HEARTBEAT_MS)
Rearm(p, c) == [n \in 1..Len(p) |-> p[n] \ {c}]

\* ws.terminate() on instance c: an instance not yet closed is destroyed and
\* its 'close' event will follow
Terminate(sk, c) == IF sk[c] \in {"connecting", "open"} THEN [sk EXCEPT ![c] = "closing"] ELSE sk

\* a plausible slip: the reconnect starts from fresh dedup and poll state
connect_FreshState ==
  /\ ~crashed
  /\ pending # <<>>
  /\ conns < MaxConns
  /\ pending' = Tail(pending)
  /\ conns' = conns + 1
  /\ ws' = conns + 1
  /\ sock' = Append(sock, "connecting")
  /\ hb' = Append(hb, conns + 1)
  /\ sent' = Append(sent, <<>>)
  /\ pingOut' = Append(pingOut, FALSE)
  /\ appPinged' = Append(appPinged, FALSE)
  /\ last' = [h |-> "connect", c |-> conns + 1]
  /\ seen' = <<>>
  /\ lastTs' = <<>>
  /\ UNCHANGED <<alive, appPing, keepalives, crashed, pureVars, cacheVars,
                 ADDRESSES, clock, ticks, tasks, delivered, nmsgs, npolls>>

\* connect(), run by a reconnect timer: a new instance and its heartbeat
connect ==
  /\ ~crashed
  /\ pending # <<>>
  /\ conns < MaxConns
  /\ pending' = Tail(pending)
  /\ conns' = conns + 1
  /\ ws' = conns + 1
  /\ sock' = Append(sock, "connecting")
  /\ hb' = Append(hb, conns + 1)
  /\ sent' = Append(sent, <<>>)
  /\ pingOut' = Append(pingOut, FALSE)
  /\ appPinged' = Append(appPinged, FALSE)
  /\ last' = [h |-> "connect", c |-> conns + 1]
  /\ UNCHANGED <<alive, appPing, keepalives, crashed, pureVars, relayVars, cacheVars>>

\* ws.on('open') of instance c: alive = true; subscribeAll(); startAppPing().
\* subscribeAll sends on the module-level ws.  While that instance is still
\* CONNECTING the first send throws out of the handler, in every release of
\* the `ws` package; once it is CLOSING or CLOSED the send throws in the older
\* releases and does nothing in the newer ones (the package version is not
\* pinned in the sources, so both outcomes are kept).
OnOpen(c) ==
  /\ ~crashed
  /\ c \in 1..conns
  /\ sock[c] = "connecting"
  /\ alive' = TRUE
  /\ LET sk == [sock EXCEPT ![c] = "open"]
     IN  /\ sock' = sk
         /\ \/ /\ sk[ws] # "open"
               /\ crashed' = TRUE
               /\ UNCHANGED <<sent, appPing, keepalives>>
            \/ /\ sk[ws] # "connecting"
               /\ crashed' = FALSE
               /\ sent' = IF sk[ws] = "open"
                            THEN [sent EXCEPT ![ws] = @ \o SubscriptionSet]
                            ELSE sent
               /\ appPing' = appPing + 1
               /\ keepalives' = (keepalives \ {appPing}) \cup {appPing + 1}
  /\ last' = [h |-> "open", c |-> c, ws |-> ws]
  /\ UNCHANGED <<conns, ws, hb, pingOut, appPinged, pending, pureVars, relayVars, cacheVars>>

\* ws.on('pong') of instance c: any pong frame, answering a ping of the
\* heartbeat or not.  Frames the socket had received are still handled
\* while the instance is closing.
OnPong(c) ==
  /\ ~crashed
  /\ c \in 1..conns
  /\ sock[c] \in {"open", "closing"}
  /\ alive' = TRUE
  /\ pingOut' = [pingOut EXCEPT ![c] = FALSE]
  /\ last' = [h |-> "pong", c |-> c]
  /\ UNCHANGED <<conns, ws, sock, hb, sent, appPinged, appPing, keepalives, pending,
                 crashed, pureVars, relayVars, cacheVars>>

\* the heartbeat interval of instance c fires: the intervals have the same
\* period, so the one that fired longest ago is the next, and none fires
\* before a reconnect timer that was set after it was armed
Heartbeat(c) ==
  /\ ~crashed
  /\ c \in 1..conns
  /\ hb # <<>> /\ c = Head(hb)
  /\ \A n \in 1..Len(pending) : c \in pending[n]
  /\ IF ~alive
       THEN /\ sock' = Terminate(sock, ws)
            /\ hb' = ClearHb(hb, c)
            /\ keepalives' = keepalives \ {appPing}
            /\ pending' = Schedule(Rearm(pending, c), ClearHb(hb, c))
            /\ pingOut' = [pingOut EXCEPT ![ws] = FALSE]
            /\ last' = [h |-> "hb", c |-> c, ws |-> ws, killed |-> TRUE,
                        pinged |-> FALSE]
            /\ UNCHANGED alive
       ELSE /\ alive' = FALSE
            /\ pingOut' = IF sock[ws] = "open" THEN [pingOut EXCEPT ![ws] = TRUE]
                          ELSE pingOut
            /\ last' = [h |-> "hb", c |-> c, ws |-> ws, killed |-> FALSE,
                        pinged |-> sock[ws] = "open"]
            /\ hb' = Append(Tail(hb), c)
            /\ pending' = Rearm(pending, c)
            /\ UNCHANGED <<sock, keepalives>>
  /\ UNCHANGED <<conns, ws, sent, appPinged, appPing, crashed, pureVars, relayVars,
                 cacheVars>>

\* the keepalive interval fires: {method:'ping'} on the module-level ws
AppPingTick ==
  /\ ~crashed
  /\ appPing \in keepalives
  /\ appPinged' = IF sock[ws] = "open" THEN [appPinged EXCEPT ![ws] = TRUE]
                  ELSE appPinged
  /\ last' = [h |-> "appPing", c |-> ws]
  /\ UNCHANGED <<conns, ws, sock, hb, sent, pingOut, alive, appPing, keepalives,
                 pending, crashed, pureVars, relayVars, cacheVars>>

\* the transport of instance c fails or the peer closes it (a failed
\* handshake included): ws.on('error') only logs; 'close' will follow
Drop(c) ==
  /\ ~crashed
  /\ c \in 1..conns
  /\ Live(c)
  /\ sock' = [sock EXCEPT ![c] = "closing"]
  /\ pingOut' = [pingOut EXCEPT ![c] = FALSE]
  /\ last' = [h |-> "error", c |-> c]
  /\ UNCHANGED <<conns, ws, hb, sent, appPinged, alive, appPing, keepalives, pending,
                 crashed, pureVars, relayVars, cacheVars>>

\* ws.on('close') of instance c: terminate the module-level ws, clear this
\* instance's heartbeat and the keepalive, schedule connect()
OnClose(c) ==
  /\ ~crashed
  /\ c \in 1..conns
  /\ sock[c] = "closing"
  /\ sock' = Terminate([sock EXCEPT ![c] = "closed"], ws)
  /\ pingOut' = [pingOut EXCEPT ![ws] = FALSE]
  /\ hb' = ClearHb(hb, c)
  /\ keepalives' = keepalives \ {appPing}
  /\ pending' = Schedule(Rearm(pending, c), ClearHb(hb, c))
  /\ last' = [h |-> "close", c |-> c, ws |-> ws]
  /\ UNCHANGED <<conns, ws, sent, appPinged, alive, appPing, crashed, pureVars,
                 relayVars, cacheVars>>

NextConn ==
  \/ connect
  \/ \E c \in 1..conns : OnOpen(c)
  \/ \E c \in 1..conns : OnPong(c)
  \/ \E c \in 1..conns : Heartbeat(c)
  \/ AppPingTick
  \/ \E c \in 1..conns : Drop(c)
  \/ \E c \in 1..conns : OnClose(c)

InitConnSpec ==
  /\ InitRelay(<<"0xab", "0xcd">>)
  /\ InitConn
  /\ pin = None /\ pout = None /\ ppc = "idle"

SpecConn == InitConnSpec /\ [][NextConn]_vars

(***************************************************************************)
(* SpecReconn: the relay working while the connection is torn down and     *)
(* made again.  A stream message is handled by the 'message' listener of   *)
(* the instance it arrives on, open or already closing.                    *)
(***************************************************************************)
MaxReconnects == 1   \* connect() calls after the first in a run of SpecReconn
MaxReMsgs == 2       \* stream messages received in a run of SpecReconn
MaxRePolls == 1      \* poll cycles started in a run of SpecReconn
MaxReTicks == 1      \* clock advances in a run of SpecReconn

ReconnMsgs == {ObjMsg([fills |-> <<[user |-> "0xab"] @@ F100>>])}
ReconnPolls == {[kind |-> "fills", fills |-> <<F50>>]}

\* ws.on('message') of instance c
StreamMessage(c, raw) ==
  /\ ~crashed
  /\ c \in 1..conns
  /\ sock[c] \in {"open", "closing"}
  /\ nmsgs < MaxReMsgs
  /\ raw.json
  /\ ~IsAck(raw)
  /\ ~Throws(raw)
  /\ nmsgs' = nmsgs + 1
  /\ Continue([type |-> "ws", now |-> clock, items |-> Normalize(raw), i |-> 0,
               pc |-> "start"], 0, 1, lastTs)
  /\ last' = [h |-> "message", c |-> c, delivered |-> Len(delivered') - Len(delivered)]
  /\ UNCHANGED <<ADDRESSES, clock, ticks, npolls, pureVars, cacheVars, conns, ws, sock,
                 hb, sent, pingOut, appPinged, alive, appPing, keepalives, pending,
                 crashed>>

NextReconn ==
  \/ (conns <= MaxReconnects /\ connect)
  \/ \E c \in 1..conns : OnOpen(c)
  \/ \E c \in 1..conns : OnPong(c)
  \/ \E c \in 1..conns : Heartbeat(c)
  \/ AppPingTick
  \/ \E c \in 1..conns : Drop(c)
  \/ \E c \in 1..conns : OnClose(c)
  \/ \E c \in 1..conns, raw \in ReconnMsgs : StreamMessage(c, raw)
  \/ Tick(SEEN_TTL_MS \div 2, MaxReTicks)
  \/ pollUserFills(MaxRePolls)
  \/ \E k \in 1..Len(tasks), res \in ReconnPolls : PollAnswered(k, res)
  \/ \E k \in 1..Len(tasks) : DeliverySettled(k, "ok")

SpecReconn == Init /\ [][NextReconn]_vars

(***************************************************************************)
(* Claims on the relay pipeline                                            *)
(***************************************************************************)
\* the account an event names, as eventKey reads it
AccountOf(evt) ==
  LET o == Obj(evt)
  IN  toLowerCase(Or(Get(o, "address"), Or(Get(o, "user"), Or(Get(o, "wallet"), ""))))

\* what identifies a fill in the world: account, hash, order id, time, coin,
\* price and size (the kind tag is the relay's own)
FillIdentity(evt) ==
  LET o == Obj(evt)
  IN  <<AccountOf(evt),
        Or(Get(o, "txHash"), Or(Get(o, "hash"), "")),
        Or(Get(o, "orderId"), Or(Get(o, "cloid"), "")),
        Or(Get(o, "time"), Or(Get(o, "timestamp"), Or(Get(o, "ts"), 0))),
        Or(Get(o, "coin"), Or(Get(o, "symbol"), Or(Get(o, "asset"), ""))),
        Or(Get(o, "px"), Or(Get(o, "price"), "")),
        Or(Get(o, "sz"), Or(Get(o, "size"), ""))>>

IsConfigured(a) == \E n \in 1..Len(ADDRESSES) : ADDRESSES[n] = a

\* C1: a fill of a configured account that the stream handler has delivered
\* is not delivered again when pollUserFills later observes the same fill,
\* whichever normalizer rule and address field the stream message used.
C1_CrossPathDedup ==
  \A i, j \in 1..Len(delivered) :
    (/\ i < j
     /\ delivered[i].source = "hyperliquid-ws"
     /\ IsConfigured(AccountOf(delivered[i].event))
     /\ delivered[j].source = "hyperliquid-poll")
    => FillIdentity(delivered[i].event) # FillIdentity(delivered[j].event)

\* C4: once an account has a watermark, no step lowers or removes it.
C4_WatermarkMonotonic ==
  [][\A a \in DOMAIN lastTs : a \in DOMAIN lastTs' /\ lastTs'[a] >= lastTs[a]]_vars

\* C4 happens: the poller has delivered fills with times 100, 50, 200 in
\* that order, every handler has finished, and the watermark is 200.
C4_Witness ==
  /\ tasks = <<>>
  /\ \E i, j, k \in 1..Len(delivered) :
       /\ i < j /\ j < k
       /\ delivered[i].source = "hyperliquid-poll" /\ delivered[i].event.time = 100
       /\ delivered[j].source = "hyperliquid-poll" /\ delivered[j].event.time = 50
       /\ delivered[k].source = "hyperliquid-poll" /\ delivered[k].event.time = 200
  /\ "0xab" \in DOMAIN lastTs
  /\ lastTs["0xab"] = 200

\* C6: when the fetch for an account answers zero fills and the account has
\* no watermark at that moment, the step records the poll's `since` (its
\* start time minus the lookback) as the watermark; and a cycle that starts
\* while an account has a watermark queries from that watermark.
C6_IdleSeeding ==
  [][/\ \A k \in 1..Len(tasks) :
          (/\ PollAnswered(k, [kind |-> "fills", fills |-> <<>>])
           /\ ~MapHas(lastTs, ADDRESSES[tasks[k].ai]))
          => /\ MapHas(lastTs', ADDRESSES[tasks[k].ai])
             /\ lastTs'[ADDRESSES[tasks[k].ai]] = tasks[k].now - LOOKBACK_MS
     /\ (pollUserFills(MaxCycles) /\ MapHas(lastTs, ADDRESSES[1]))
          => tasks'[Len(tasks')].since = lastTs[ADDRESSES[1]]
    ]_vars

\* C6 happens: an idle account was seeded with the first cycle's `since`,
\* nothing was delivered, and a later cycle is querying from that value.
C6_Witness ==
  /\ delivered = <<>>
  /\ "0xab" \in DOMAIN lastTs
  /\ lastTs["0xab"] = Epoch - LOOKBACK_MS
  /\ \E k \in 1..Len(tasks) :
       /\ tasks[k].pc = "fetch"
       /\ tasks[k].now > Epoch
       /\ tasks[k].since = Epoch - LOOKBACK_MS

(***************************************************************************)
(* Claims on the dedup cache                                               *)
(***************************************************************************)
\* C2: shouldEmit returns false exactly when the same fingerprint was
\* accepted less than SEEN_TTL_MS before: true on the first call, false
\* within the window, true again once the window measured from the accepted
\* call has elapsed, gcSeen or not, rejected calls not extending it.
C2_DedupWindow ==
  ncalls > 0 =>
    call.ret = (call.last = 0 \/ call.at - call.last >= SEEN_TTL_MS)

\* C2 happens: a fingerprint accepted once and rejected since is accepted
\* again exactly SEEN_TTL_MS after the accepted call.
C2_Witness ==
  /\ ncalls > 0
  /\ call.ret
  /\ call.rejected = 1
  /\ call.last # 0
  /\ call.at = call.last + SEEN_TTL_MS

\* the fields eventKey reads
IdentFields ==
  {"address", "user", "wallet", "txHash", "hash", "orderId", "cloid", "time",
   "timestamp", "ts", "kind", "type", "eventType", "coin", "symbol", "asset",
   "px", "price", "sz", "size"}

\* C3: shouldEmit returns true for every call with an event that carries
\* none of the identifying fields.
C3_FailOpen ==
  (ncalls > 0 /\ DOMAIN Obj(call.evt) \cap IdentFields = {}) => call.ret

(***************************************************************************)
(* Claims on the pure functions                                            *)
(***************************************************************************)
\* C7: two events that carry the same component values (address, hash,
\* order id, time, kind, coin, price, size) get the same eventKey, whichever
\* alias field of each component supplied the value.
C7_FingerprintDeterminism ==
  (ppc = "out" /\ pin.op = "key") => pout[1] = pout[2]

\* C7 happens: one event names the account in `wallet`, the other in `user`,
\* and both get the key of the full fill.
C7_Witness ==
  /\ ppc = "out"
  /\ pin.op = "key"
  /\ "wallet" \in DOMAIN pin.e1
  /\ "user" \in DOMAIN pin.e2
  /\ pout[1] = "0xab|h1|7|100|fill|BTC|1|2"
  /\ pout[2] = "0xab|h1|7|100|fill|BTC|1|2"

\* the rule of the dispatch a non-array message takes
RuleTag(o) ==
  IF (Is(o, "fills") /\ IsArray(o.fills)) \/ Is(o, "fill") THEN "fill"
  ELSE IF Is(o, "event") \/ Is(o, "events") THEN "event"
  ELSE IF Is(o, "update") \/ Is(o, "updates") THEN "ledger"
  ELSE IF Is(o, "type") /\ (IsText(o, "type", "pong") \/ IsText(o, "method", "pong"))
    THEN "pong"
  ELSE "raw"

\* C8: every event made from fills/fill has kind=fill, from event/events
\* kind=event, from update/updates kind=ledger; an application-level pong
\* makes no event; any other non-array message makes exactly one kind=raw
\* event that keeps the message's fields; whatever the elements carry.
C8_KindTagging ==
  (ppc = "out" /\ pin.op = "norm" /\ ~pin.msg.isArray) =>
    LET o == pin.msg.obj
        tag == RuleTag(o)
    IN  /\ tag \in {"fill", "event", "ledger"} =>
             \A i \in 1..Len(pout) : pout[i].kind = tag
        /\ tag = "pong" => pout = <<>>
        /\ tag = "raw" =>
             /\ Len(pout) = 1
             /\ pout[1].kind = "raw"
             /\ \A f \in DOMAIN Obj(o) : f \in DOMAIN pout[1] /\ pout[1][f] = o[f]

(***************************************************************************)
(* Claims on the connection loop                                           *)
(***************************************************************************)
\* C5: when a transport ping sent on an open instance x is still unanswered
\* at a heartbeat tick, that tick terminates x's socket, cancels x's
\* heartbeat and the keepalive, and schedules one connect().
C5_ReconnectOnSilence ==
  [][\A c, x \in 1..conns :
       (pingOut[x] /\ sock[x] = "open" /\ Heartbeat(c))
       => /\ sock'[x] \in {"closing", "closed"}
          /\ ~HbActive(hb', x)
          /\ keepalives' = {}
          /\ Len(pending') = Len(pending) + 1]_vars

\* C9 (its safety half): no handler run for a connection ever ends the
\* process.
C9_NeverExits == ~crashed

\* C10: when an instance opens, the whole subscription set is sent on that
\* instance.
C10_ResubscribeOnOpen ==
  [][\A c \in 1..conns :
       OnOpen(c) =>
         /\ Len(sent'[c]) = Len(sent[c]) + Len(SubscriptionSet)
         /\ SubSeq(sent'[c], Len(sent[c]) + 1, Len(sent'[c])) = SubscriptionSet]_vars

\* C15: at any moment at most one heartbeat interval and at most one
\* keepalive interval are active (connect() starts an instance only after
\* the timers of the earlier ones were cancelled).
C15_TimerCancellation ==
  /\ Len(hb) <= 1
  /\ Cardinality(keepalives) <= 1

\* C16: a heartbeat tick destroys a connection only if that connection is
\* open and a transport ping sent on it at an earlier tick is still
\* unanswered; never one that is still connecting or was never pinged.
C16_NoPrematureKill ==
  [][\A c, x \in 1..conns :
       (Heartbeat(c) /\ Live(x) /\ ~Live(x)')
       => (sock[x] = "open" /\ pingOut[x])]_vars

\* C17: the handler of a 'close' event and likewise the handler of an
\* 'error' event of instance c leaves c's socket destroyed, c's heartbeat
\* and the keepalive cancelled, and one more connect() scheduled.
C17_TeardownOnCloseOrError ==
  [][\A c \in 1..conns :
       (OnClose(c) \/ Drop(c))
       => /\ ~Live(c)'
          /\ ~HbActive(hb', c)
          /\ appPing \notin keepalives'
          /\ Len(pending') = Len(pending) + 1]_vars

\* C19: live instances and scheduled connect() calls together never number
\* more than one, and every live instance is the one the module-level ws
\* refers to.
C19_SingleReconnect ==
  /\ Cardinality({c \in 1..conns : Live(c)}) + Len(pending) <= 1
  /\ \A c \in 1..conns : Live(c) => ws = c

(***************************************************************************)
(* Claims on deliveries                                                    *)
(***************************************************************************)
\* shouldEmit would reject p now: its key was accepted less than the TTL ago
Fresh(p) ==
  /\ eventKey(p) \in DOMAIN seen
  /\ clock - seen[eventKey(p)] < SEEN_TTL_MS

\* the first element of handler t from j on that is not such a duplicate
\* (Len + 1 when there is none)
RECURSIVE FirstNew(_, _)
FirstNew(t, j) ==
  IF j > Len(t.items) \/ ~Fresh(Payload(t, j)) THEN j ELSE FirstNew(t, j + 1)

\* C13: when a webhook call fails (non-2xx or network error) nothing is
\* raised: the process and the connection are as before, the handler goes on
\* with the remaining events of its message or batch (the next one that is
\* not a duplicate is handed to the webhook in the same step), the failed
\* event is not handed over again and its cache entry stays while in TTL.
C13_BestEffort ==
  [][\A k \in 1..Len(tasks) :
       (/\ tasks[k].pc = "emit"
        /\ clock' = clock /\ nmsgs' = nmsgs /\ npolls' = npolls
        /\ last'.h = "webhook"
        /\ (Len(tasks') < Len(tasks) \/ tasks'[k] # tasks[k])
        /\ \E o \in {"non2xx", "neterr"} : DeliverySettled(k, o)) =>
         LET t == tasks[k]
             key == eventKey(Payload(t, t.i))
             n == FirstNew(t, t.i + 1)
         IN  /\ <<conns, ws, sock, hb, sent, pingOut, alive, appPing, keepalives,
                   pending, crashed>>' =
                 <<conns, ws, sock, hb, sent, pingOut, alive, appPing, keepalives,
                   pending, crashed>>
             /\ Fresh(Payload(t, t.i)) =>
                   /\ key \in DOMAIN seen' /\ seen'[key] = seen[key]
                   /\ \A j \in (Len(delivered) + 1)..Len(delivered') :
                         eventKey(delivered'[j].event) # key
             /\ IF n <= Len(t.items)
                  THEN delivered' = Append(delivered, Envelope(t, n))
                  ELSE /\ delivered' = delivered
                       /\ \/ Len(tasks') = Len(tasks) - 1
                          \/ tasks'[k].pc = "fetch"]_vars

\* C13 happens: the webhook call for the first fill of a stream message
\* failed, the second fill of the message was delivered all the same, and a
\* poll that then returned the first fill and a new one delivered the new one
\* only.
C13_Witness ==
  /\ tasks = <<>>
  /\ last.h = "webhook"
  /\ Len(delivered) = 3
  /\ delivered[1].source = "hyperliquid-ws" /\ eventKey(delivered[1].event) = last.key
  /\ delivered[2].source = "hyperliquid-ws" /\ delivered[2].event.time = 50
  /\ delivered[3].source = "hyperliquid-poll" /\ delivered[3].event.time = 200

\* C18: the events of one stream message reach the webhook one at a time
\* and in the order of normalization.  No step issues more than one POST; the
\* first POST of a message is for its first event that is not a duplicate;
\* and when a POST of the handler settles, whatever other handlers did in the
\* meantime, its next POST is for the first later event of the message that
\* is not a duplicate by then.
C18_InMessageOrdering ==
  [][/\ Len(delivered') <= Len(delivered) + 1
     /\ (nmsgs' = nmsgs + 1 /\ Len(delivered') > Len(delivered)) =>
          LET t == tasks'[Len(tasks')]
          IN  /\ t.type = "ws" /\ t.pc = "emit"
              /\ t.i = FirstNew(t, 1)
              /\ delivered' = Append(delivered, Envelope(t, t.i))
     /\ \A k \in 1..Len(tasks) :
          (/\ tasks[k].type = "ws" /\ tasks[k].pc = "emit"
           /\ clock' = clock /\ nmsgs' = nmsgs /\ npolls' = npolls
           /\ (Len(tasks') < Len(tasks) \/ tasks'[k] # tasks[k])) =>
            \/ LET t == tasks[k]
                   n == FirstNew(t, t.i + 1)
               IN  IF n <= Len(t.items)
                     THEN /\ delivered' = Append(delivered, Envelope(t, n))
                          /\ tasks'[k] = [t EXCEPT !.i = n]
                     ELSE /\ delivered' = delivered
                          /\ Len(tasks') = Len(tasks) - 1
            \/ ~(\E o \in Outcomes : DeliverySettled(k, o))]_vars

\* C18 happens: one stream message was received; its first fill was handed
\* over, then a poll cycle handed over a fill of its own, then the message's
\* second fill followed, and everything has settled.
C18_Witness ==
  /\ nmsgs = 1 /\ tasks = <<>>
  /\ Len(delivered) = 3
  /\ delivered[1].source = "hyperliquid-ws" /\ delivered[1].event.time = 100
  /\ delivered[2].source = "hyperliquid-poll" /\ delivered[2].event.time = 200
  /\ delivered[3].source = "hyperliquid-ws" /\ delivered[3].event.time = 50

\* C20: whatever the interleaving of message handlers and poll cycles, two
\* envelopes with the same fingerprint are never handed to the webhook less
\* than the TTL apart.
C20_NoDoubleDelivery ==
  \A i, j \in 1..Len(delivered) :
    (i < j /\ eventKey(delivered[i].event) = eventKey(delivered[j].event))
    => delivered[j].sentAt - delivered[i].sentAt >= SEEN_TTL_MS

\* C20 happens: the handlers of two stream messages carrying the same two
\* fills are both suspended in a webhook call, the first for the first fill
\* and the second, which found the first fill in the cache, for the second.
C20_Witness ==
  /\ Len(tasks) = 2
  /\ tasks[1].type = "ws" /\ tasks[1].pc = "emit" /\ tasks[1].i = 1
  /\ tasks[2].type = "ws" /\ tasks[2].pc = "emit" /\ tasks[2].i = 2
  /\ tasks[1].items = tasks[2].items
  /\ Len(delivered) = 2
  /\ eventKey(delivered[1].event) # eventKey(delivered[2].event)

\* C14 (as a safety property of the poll path): gcSeen runs in every poll
\* cycle, so when a cycle ends, no cache entry is left that was already
\* older than the TTL when the cycle began.
C14_SweepFromPoll ==
  [][\A k \in 1..Len(tasks) :
       (/\ tasks[k].type = "poll"
        /\ Len(tasks') < Len(tasks)
        /\ \/ PollFailed(k)
           \/ \E res \in PollResults : PollAnswered(k, res)
           \/ \E o \in Outcomes : DeliverySettled(k, o))
       => \A key \in DOMAIN seen' : tasks[k].now - seen'[key] <= SEEN_TTL_MS]_vars

(***************************************************************************)
(* Claims on the relay across reconnects                                   *)
(***************************************************************************)
\* a step of the connection loop that tears an instance down or starts one
Reconnecting ==
  \/ connect
  \/ \E c \in 1..conns : OnClose(c) \/ Drop(c) \/ (Heartbeat(c) /\ ~alive)

\* C11: teardown and connect() leave the dedup cache and the watermarks as
\* they are, and a fill handed to the webhook before a reconnect is not
\* handed to it again when it arrives on the next instance within the TTL.
C11_StatePreserved ==
  [][/\ (seen' = seen /\ lastTs' = lastTs) \/ ~Reconnecting
     /\ \/ delivered' = delivered
        \/ \A c \in 1..conns, raw \in ReconnMsgs :
             ~(/\ StreamMessage(c, raw)
               /\ \A n \in 1..Len(Normalize(raw)) :
                    \E i \in 1..Len(delivered) :
                      /\ eventKey(delivered[i].event) = eventKey(AddrFix(Normalize(raw)[n]))
                      /\ clock - delivered[i].sentAt < SEEN_TTL_MS)]_vars

\* C11 happens: the fill was delivered on the first instance and a poll set
\* a watermark; the instance was torn down and a second one opened; the
\* fill arrived again on it and was suppressed.
C11_Witness ==
  /\ conns = 2
  /\ sock[1] = "closed"
  /\ sock[2] = "open"
  /\ last.h = "message" /\ last.c = 2 /\ last.delivered = 0
  /\ nmsgs = 2
  /\ \E i \in 1..Len(delivered) : delivered[i].source = "hyperliquid-ws"
  /\ "0xab" \in DOMAIN lastTs
  /\ seen # <<>>

(***************************************************************************)
(* Claims on a poll cycle over several accounts                            *)
(***************************************************************************)
\* C12: when the query of an account fails, by a network error or by a body
\* that is not JSON, the step leaves every watermark as it was (an unset one
\* stays unset) and the cycle goes on to query the next account.
C12_PollFailureIsolation ==
  [][\A k \in 1..Len(tasks) :
       (PollFailed(k) \/ PollAnswered(k, [kind |-> "nojson"]))
       => /\ lastTs' = lastTs
          /\ tasks[k].ai < Len(ADDRESSES) =>
               /\ Len(tasks') = Len(tasks)
               /\ tasks'[k].pc = "fetch"
               /\ tasks'[k].ai = tasks[k].ai + 1]_vars

====
